---- MODULE Spec2Model ----
(***************************************************************************)
(* Process-supervision state machine of oriphim_runner (src-tauri/main.rs). *)
(* RunnerState holds an optional child handle and a running flag, each     *)
(* behind its own mutex.  The commands start_python_runner,                *)
(* stop_python_runner and get_runner_status run as independent tasks that  *)
(* are dispatched by the tray menu, by the invoke handler and by the       *)
(* startup hook.  Every statement of a command is one step of its task.    *)
(***************************************************************************)
EXTENDS Integers, FiniteSets, Sequences, TLC

\* ----------------------------------------------------------------- bounds
\* Number of tasks dispatched by the tray menu and the invoke handler
\* (the auto-start task of setup is task 0 and comes on top of these).
MaxTasks == 2

\* --------------------------------------------------------------- constants
None == 0                  \* Option::None of python_process
Free == -1                 \* a mutex nobody holds
StartupTask == 0

Tasks == 0 .. MaxTasks

MsgStarted == "Python runner started"
MsgStartFailed == "Failed to start Python runner"
MsgStopped == "Python runner stopped"
MsgStopFailed == "Failed to stop Python runner"
MsgNoRunner == "No runner process to stop"
MsgLogsOpened == "Logs folder opened"
MsgLogsFailed == "Failed to open logs folder"

\* Result<String, String> and Result<bool, String> of the commands
NoResult == [tag |-> "None", msg |-> "", val |-> FALSE]
OkMsg(m) == [tag |-> "Ok", msg |-> m, val |-> FALSE]
ErrMsg(m) == [tag |-> "Err", msg |-> m, val |-> FALSE]
OkBool(b) == [tag |-> "Ok", msg |-> "", val |-> b]

VARIABLES
  python_process,   \* RunnerState.python_process: None or the pid of the child
  is_running,       \* RunnerState.is_running
  process_lock,     \* holder of the python_process mutex, or Free
  running_lock,     \* holder of the is_running mutex, or Free
  kind,             \* kind[t]: what task t runs ("idle" before dispatch)
  pc,               \* pc[t]: position of task t in its command
  child,            \* child[t]: the local `child` of task t, or None
  result,           \* result[t]: what the command of task t returned
  alive,            \* pids of spawned workers that are still alive
  spawned,          \* number of workers spawned so far
  host_alive,       \* FALSE once app_handle.exit(0) has run
  window_visible,   \* main window shown or hidden
  pre,              \* pre[t]: handle and flag when task t had both locks
  kills,            \* kills[t]: outcomes of the kill() calls made by task t
  launches,         \* launches[t]: spawn() calls made by task t
  calls,            \* calls[t]: start/stop/status commands entered by task t
  last_op,          \* the start/stop that returned last and how
  last_flag,        \* flag when a start/stop last released the flag mutex
  any_failure       \* a kill() or a spawn() has returned an error

vars == <<python_process, is_running, process_lock, running_lock, kind, pc,
          child, result, alive, spawned, host_alive, window_visible, pre,
          kills, launches, calls, last_op, last_flag, any_failure>>

store == <<python_process, is_running>>
locks == <<process_lock, running_lock>>
os == <<alive, spawned>>
ghost == <<pre, kills, launches, calls, last_op, last_flag, any_failure>>

\* RunnerState::new and the task spawned by setup
Init ==
  /\ python_process = None
  /\ is_running = FALSE
  /\ process_lock = Free
  /\ running_lock = Free
  /\ kind = [t \in Tasks |-> IF t = StartupTask THEN "startup" ELSE "idle"]
  /\ pc = [t \in Tasks |-> IF t = StartupTask THEN "sleep" ELSE "idle"]
  /\ child = [t \in Tasks |-> None]
  /\ result = [t \in Tasks |-> NoResult]
  /\ alive = {}
  /\ spawned = 0
  /\ host_alive = TRUE
  /\ window_visible = TRUE
  /\ pre = [t \in Tasks |-> [handle |-> None, flag |-> FALSE]]
  /\ kills = [t \in Tasks |-> <<>>]
  /\ launches = [t \in Tasks |-> 0]
  /\ calls = [t \in Tasks |-> 0]
  /\ last_op = "none"
  /\ last_flag = FALSE
  /\ any_failure = FALSE

IsStart(t) == kind[t] \in {"start", "startup"}
IsStop(t) == kind[t] \in {"stop", "quit"}
IsStatus(t) == kind[t] = "status"

\* a step of task t: the host process must still exist
Runs(t, at) == host_alive /\ pc[t] = at

Goto(t, to) == pc' = [pc EXCEPT ![t] = to]
\* ------------------------------------------------------ start_python_runner
\* line 34: state.python_process.lock()
StartLockProcess(t) ==
  /\ Runs(t, "lockP") /\ IsStart(t)
  /\ process_lock = Free
  /\ process_lock' = t
  /\ Goto(t, "lockR")
  /\ UNCHANGED <<store, running_lock, kind, child, result, os, host_alive,
                 window_visible, ghost>>

\* start going on without waiting for the is_running mutex
StartLockRunning_NoWait(t) ==
  /\ Runs(t, "lockR") /\ IsStart(t)
  /\ running_lock' = t
  /\ pre' = [pre EXCEPT ![t] = [handle |-> python_process, flag |-> is_running]]
  /\ Goto(t, "take")
  /\ UNCHANGED <<store, process_lock, kind, child, result, os, host_alive,
                 window_visible, kills, launches, calls, last_op, last_flag,
                 any_failure>>

\* line 35: state.is_running.lock()
StartLockRunning(t) ==
  /\ Runs(t, "lockR") /\ IsStart(t)
  /\ running_lock = Free
  /\ running_lock' = t
  /\ pre' = [pre EXCEPT ![t] = [handle |-> python_process, flag |-> is_running]]
  /\ Goto(t, "take")
  /\ UNCHANGED <<store, process_lock, kind, child, result, os, host_alive,
                 window_visible, kills, launches, calls, last_op, last_flag,
                 any_failure>>

\* start reading the stored handle with as_mut() instead of take()
StartTake_KeepsHandle(t) ==
  /\ Runs(t, "take") /\ IsStart(t)
  /\ IF python_process # None
       THEN /\ child' = [child EXCEPT ![t] = python_process]
            /\ Goto(t, "kill")
       ELSE /\ UNCHANGED child
            /\ Goto(t, "spawn")
  /\ UNCHANGED <<store, locks, kind, result, os, host_alive, window_visible,
                 ghost>>

\* line 38: if let Some(mut child) = process_guard.take()
StartTake(t) ==
  /\ Runs(t, "take") /\ IsStart(t)
  /\ IF python_process # None
       THEN /\ child' = [child EXCEPT ![t] = python_process]
            /\ python_process' = None
            /\ Goto(t, "kill")
       ELSE /\ UNCHANGED <<child, python_process>>
            /\ Goto(t, "spawn")
  /\ UNCHANGED <<is_running, locks, kind, result, os, host_alive,
                 window_visible, ghost>>

\* start giving up the launch when the kill of the prior worker fails
StartKill_AbortsOnError(t) ==
  /\ Runs(t, "kill") /\ IsStart(t)
  /\ \E ok \in BOOLEAN :
       /\ alive' = IF ok THEN alive \ {child[t]} ELSE alive
       /\ any_failure' = (any_failure \/ ~ok)
       /\ kills' = [kills EXCEPT ![t] = Append(@, ok)]
       /\ result' = [result EXCEPT ![t] =
                       IF ok THEN @ ELSE ErrMsg(MsgStopFailed)]
       /\ Goto(t, IF ok THEN "wait" ELSE "unlockR")
  /\ UNCHANGED <<store, locks, kind, child, spawned, host_alive,
                 window_visible, pre, launches, calls, last_op, last_flag>>

\* line 39: let _ = child.kill();  the outcome of the system call is an input
StartKill(t) ==
  /\ Runs(t, "kill") /\ IsStart(t)
  /\ \E ok \in BOOLEAN :
       /\ alive' = IF ok THEN alive \ {child[t]} ELSE alive
       /\ any_failure' = (any_failure \/ ~ok)
       /\ kills' = [kills EXCEPT ![t] = Append(@, ok)]
  /\ Goto(t, "wait")
  /\ UNCHANGED <<store, locks, kind, child, result, spawned, host_alive,
                 window_visible, pre, launches, calls, last_op, last_flag>>

\* line 40: let _ = child.wait();  blocks until the child has exited; the
\* local child goes out of scope at line 41
StartWait(t) ==
  /\ Runs(t, "wait") /\ IsStart(t)
  /\ child[t] \notin alive
  /\ child' = [child EXCEPT ![t] = None]
  /\ Goto(t, "spawn")
  /\ UNCHANGED <<store, locks, kind, result, os, host_alive, window_visible,
                 ghost>>

\* start trying the launch again until it succeeds
StartSpawn_RetriesOnError(t) ==
  /\ Runs(t, "spawn") /\ IsStart(t)
  /\ launches' = [launches EXCEPT ![t] = @ + 1]
  /\ \E ok \in BOOLEAN :
       IF ok
         THEN /\ spawned' = spawned + 1
              /\ alive' = alive \cup {spawned + 1}
              /\ child' = [child EXCEPT ![t] = spawned + 1]
              /\ Goto(t, "storeP")
              /\ UNCHANGED any_failure
         ELSE /\ any_failure' = TRUE
              /\ UNCHANGED <<spawned, alive, child, pc>>
  /\ UNCHANGED <<store, locks, kind, result, host_alive, window_visible, pre,
                 kills, calls, last_op, last_flag>>

\* a failed launch taking the host down, as spawn().expect(..) would
StartSpawn_PanicsOnError(t) ==
  /\ Runs(t, "spawn") /\ IsStart(t)
  /\ launches' = [launches EXCEPT ![t] = @ + 1]
  /\ \E ok \in BOOLEAN :
       IF ok
         THEN /\ spawned' = spawned + 1
              /\ alive' = alive \cup {spawned + 1}
              /\ child' = [child EXCEPT ![t] = spawned + 1]
              /\ Goto(t, "storeP")
              /\ UNCHANGED <<result, any_failure, host_alive>>
         ELSE /\ host_alive' = FALSE
              /\ any_failure' = TRUE
              /\ UNCHANGED <<spawned, alive, child, result, pc>>
  /\ UNCHANGED <<store, locks, kind, window_visible, pre, kills, calls,
                 last_op, last_flag>>

\* lines 44-50 and 57-60: Command::new("python")...spawn(), and the Err arm
StartSpawn(t) ==
  /\ Runs(t, "spawn") /\ IsStart(t)
  /\ launches' = [launches EXCEPT ![t] = @ + 1]
  /\ \E ok \in BOOLEAN :
       IF ok
         THEN /\ spawned' = spawned + 1
              /\ alive' = alive \cup {spawned + 1}
              /\ child' = [child EXCEPT ![t] = spawned + 1]
              /\ Goto(t, "storeP")
              /\ UNCHANGED <<result, any_failure>>
         ELSE /\ result' = [result EXCEPT ![t] = ErrMsg(MsgStartFailed)]
              /\ any_failure' = TRUE
              /\ Goto(t, "unlockR")
              /\ UNCHANGED <<spawned, alive, child>>
  /\ UNCHANGED <<store, locks, kind, host_alive, window_visible, pre, kills,
                 calls, last_op, last_flag>>

\* line 52: *process_guard = Some(child)
StartStoreProcess(t) ==
  /\ Runs(t, "storeP") /\ IsStart(t)
  /\ python_process' = child[t]
  /\ child' = [child EXCEPT ![t] = None]
  /\ Goto(t, "storeF")
  /\ UNCHANGED <<is_running, locks, kind, result, os, host_alive,
                 window_visible, ghost>>

\* lines 53-55: *running_guard = true; Ok("Python runner started")
StartStoreFlag(t) ==
  /\ Runs(t, "storeF") /\ IsStart(t)
  /\ is_running' = TRUE
  /\ result' = [result EXCEPT ![t] = OkMsg(MsgStarted)]
  /\ Goto(t, "unlockR")
  /\ UNCHANGED <<python_process, locks, kind, child, os, host_alive,
                 window_visible, ghost>>

\* line 62: running_guard, declared last, is dropped first
StartUnlockRunning(t) ==
  /\ Runs(t, "unlockR") /\ IsStart(t)
  /\ running_lock' = Free
  /\ last_flag' = is_running
  /\ Goto(t, "unlockP")
  /\ UNCHANGED <<store, process_lock, kind, child, result, os, host_alive,
                 window_visible, pre, kills, launches, calls, last_op,
                 any_failure>>

\* the caller of start calling it again after a failure
StartUnlockProcess_RetriesOnError(t) ==
  /\ Runs(t, "unlockP") /\ IsStart(t)
  /\ process_lock' = Free
  /\ last_op' = IF result[t].tag = "Ok" THEN "start_ok" ELSE "start_err"
  /\ IF result[t].tag = "Ok"
       THEN /\ Goto(t, "done")
            /\ UNCHANGED <<calls, result>>
       ELSE /\ Goto(t, "lockP")
            /\ calls' = [calls EXCEPT ![t] = @ + 1]
            /\ result' = [result EXCEPT ![t] = NoResult]
  /\ UNCHANGED <<store, running_lock, kind, child, os, host_alive,
                 window_visible, pre, kills, launches, last_flag, any_failure>>

\* line 62: process_guard is dropped and the command returns
StartUnlockProcess(t) ==
  /\ Runs(t, "unlockP") /\ IsStart(t)
  /\ process_lock' = Free
  /\ last_op' = IF result[t].tag = "Ok" THEN "start_ok" ELSE "start_err"
  /\ Goto(t, "done")
  /\ UNCHANGED <<store, running_lock, kind, child, result, os, host_alive,
                 window_visible, pre, kills, launches, calls, last_flag,
                 any_failure>>

start_python_runner(t) ==
  \/ StartLockProcess(t)
  \/ StartLockRunning(t)
  \/ StartTake(t)
  \/ StartKill(t)
  \/ StartWait(t)
  \/ StartSpawn(t)
  \/ StartStoreProcess(t)
  \/ StartStoreFlag(t)
  \/ StartUnlockRunning(t)
  \/ StartUnlockProcess(t)

\* ------------------------------------------------------- stop_python_runner
\* line 68: state.python_process.lock()
StopLockProcess(t) ==
  /\ Runs(t, "lockP") /\ IsStop(t)
  /\ process_lock = Free
  /\ process_lock' = t
  /\ Goto(t, "lockR")
  /\ UNCHANGED <<store, running_lock, kind, child, result, os, host_alive,
                 window_visible, ghost>>

\* line 69: state.is_running.lock()
StopLockRunning(t) ==
  /\ Runs(t, "lockR") /\ IsStop(t)
  /\ running_lock = Free
  /\ running_lock' = t
  /\ pre' = [pre EXCEPT ![t] = [handle |-> python_process, flag |-> is_running]]
  /\ Goto(t, "take")
  /\ UNCHANGED <<store, process_lock, kind, child, result, os, host_alive,
                 window_visible, kills, launches, calls, last_op, last_flag,
                 any_failure>>

\* stop reading the stored handle with as_mut() instead of take()
StopTake_PeeksHandle(t) ==
  /\ Runs(t, "take") /\ IsStop(t)
  /\ IF python_process # None
       THEN /\ child' = [child EXCEPT ![t] = python_process]
            /\ Goto(t, "kill")
            /\ UNCHANGED result
       ELSE /\ result' = [result EXCEPT ![t] = OkMsg(MsgNoRunner)]
            /\ Goto(t, "unlockR")
            /\ UNCHANGED child
  /\ UNCHANGED <<store, locks, kind, os, host_alive, window_visible, ghost>>

\* line 71: if let Some(mut child) = process_guard.take(), and the else arm
\* of lines 84-87
StopTake(t) ==
  /\ Runs(t, "take") /\ IsStop(t)
  /\ IF python_process # None
       THEN /\ child' = [child EXCEPT ![t] = python_process]
            /\ python_process' = None
            /\ Goto(t, "kill")
            /\ UNCHANGED result
       ELSE /\ result' = [result EXCEPT ![t] = OkMsg(MsgNoRunner)]
            /\ Goto(t, "unlockR")
            /\ UNCHANGED <<child, python_process>>
  /\ UNCHANGED <<is_running, locks, kind, os, host_alive, window_visible,
                 ghost>>

\* line 72: match child.kill(), and the Err arm of lines 79-82, at whose end
\* the local child is dropped (dropping a Child does not kill the process)
StopKill(t) ==
  /\ Runs(t, "kill") /\ IsStop(t)
  /\ \E ok \in BOOLEAN :
       /\ kills' = [kills EXCEPT ![t] = Append(@, ok)]
       /\ IF ok
            THEN /\ alive' = alive \ {child[t]}
                 /\ Goto(t, "wait")
                 /\ UNCHANGED <<child, result, any_failure>>
            ELSE /\ result' = [result EXCEPT ![t] = ErrMsg(MsgStopFailed)]
                 /\ child' = [child EXCEPT ![t] = None]
                 /\ any_failure' = TRUE
                 /\ Goto(t, "unlockR")
                 /\ UNCHANGED alive
  /\ UNCHANGED <<store, locks, kind, spawned, host_alive, window_visible,
                 pre, launches, calls, last_op, last_flag>>

\* line 74: let _ = child.wait()
StopWait(t) ==
  /\ Runs(t, "wait") /\ IsStop(t)
  /\ child[t] \notin alive
  /\ child' = [child EXCEPT ![t] = None]
  /\ Goto(t, "storeF")
  /\ UNCHANGED <<store, locks, kind, result, os, host_alive, window_visible,
                 ghost>>

\* stop forgetting to clear the flag
StopStoreFlag_KeepsFlag(t) ==
  /\ Runs(t, "storeF") /\ IsStop(t)
  /\ result' = [result EXCEPT ![t] = OkMsg(MsgStopped)]
  /\ Goto(t, "unlockR")
  /\ UNCHANGED <<store, locks, kind, child, os, host_alive, window_visible,
                 ghost>>

\* lines 75-77: *running_guard = false; Ok("Python runner stopped")
StopStoreFlag(t) ==
  /\ Runs(t, "storeF") /\ IsStop(t)
  /\ is_running' = FALSE
  /\ result' = [result EXCEPT ![t] = OkMsg(MsgStopped)]
  /\ Goto(t, "unlockR")
  /\ UNCHANGED <<python_process, locks, kind, child, os, host_alive,
                 window_visible, ghost>>

\* line 88: running_guard is dropped first
StopUnlockRunning(t) ==
  /\ Runs(t, "unlockR") /\ IsStop(t)
  /\ running_lock' = Free
  /\ last_flag' = is_running
  /\ Goto(t, "unlockP")
  /\ UNCHANGED <<store, process_lock, kind, child, result, os, host_alive,
                 window_visible, pre, kills, launches, calls, last_op,
                 any_failure>>

\* stop keeping the handle mutex locked on its failure path
StopUnlockProcess_LeaksOnError(t) ==
  /\ Runs(t, "unlockP") /\ IsStop(t)
  /\ process_lock' = IF result[t].tag = "Err" THEN process_lock ELSE Free
  /\ last_op' = IF result[t].tag = "Err" THEN "stop_err"
                ELSE IF result[t].msg = MsgStopped THEN "stop_ok"
                ELSE "stop_none"
  /\ Goto(t, IF kind[t] = "quit" THEN "exit" ELSE "done")
  /\ UNCHANGED <<store, running_lock, kind, child, result, os, host_alive,
                 window_visible, pre, kills, launches, calls, last_flag,
                 any_failure>>

\* line 88: process_guard is dropped and the command returns; the quit task
\* goes on to line 196
StopUnlockProcess(t) ==
  /\ Runs(t, "unlockP") /\ IsStop(t)
  /\ process_lock' = Free
  /\ last_op' = IF result[t].tag = "Err" THEN "stop_err"
                ELSE IF result[t].msg = MsgStopped THEN "stop_ok"
                ELSE "stop_none"
  /\ Goto(t, IF kind[t] = "quit" THEN "exit" ELSE "done")
  /\ UNCHANGED <<store, running_lock, kind, child, result, os, host_alive,
                 window_visible, pre, kills, launches, calls, last_flag,
                 any_failure>>

stop_python_runner(t) ==
  \/ StopLockProcess(t)
  \/ StopLockRunning(t)
  \/ StopTake(t)
  \/ StopKill(t)
  \/ StopWait(t)
  \/ StopStoreFlag(t)
  \/ StopUnlockRunning(t)
  \/ StopUnlockProcess(t)

\* -------------------------------------------------------- get_runner_status
\* status reading the flag without waiting for the is_running mutex
StatusLock_NoWait(t) ==
  /\ Runs(t, "lockR") /\ IsStatus(t)
  /\ Goto(t, "read")
  /\ UNCHANGED <<store, locks, kind, child, result, os, host_alive,
                 window_visible, ghost>>

\* line 92: state.is_running.lock()
StatusLock(t) ==
  /\ Runs(t, "lockR") /\ IsStatus(t)
  /\ running_lock = Free
  /\ running_lock' = t
  /\ Goto(t, "read")
  /\ UNCHANGED <<store, process_lock, kind, child, result, os, host_alive,
                 window_visible, ghost>>

\* status resetting the flag it reads
StatusRead_ClearsFlag(t) ==
  /\ Runs(t, "read") /\ IsStatus(t)
  /\ result' = [result EXCEPT ![t] = OkBool(is_running)]
  /\ is_running' = FALSE
  /\ Goto(t, "unlockR")
  /\ UNCHANGED <<python_process, locks, kind, child, os, host_alive,
                 window_visible, ghost>>

\* line 93: Ok(*running_guard)
StatusRead(t) ==
  /\ Runs(t, "read") /\ IsStatus(t)
  /\ result' = [result EXCEPT ![t] = OkBool(is_running)]
  /\ Goto(t, "unlockR")
  /\ UNCHANGED <<store, locks, kind, child, os, host_alive, window_visible,
                 ghost>>

\* line 94: running_guard is dropped and the command returns
StatusUnlock(t) ==
  /\ Runs(t, "unlockR") /\ IsStatus(t)
  /\ running_lock' = Free
  /\ Goto(t, "done")
  /\ UNCHANGED <<store, process_lock, kind, child, result, os, host_alive,
                 window_visible, ghost>>

get_runner_status(t) ==
  \/ StatusLock(t)
  \/ StatusRead(t)
  \/ StatusUnlock(t)

\* ------------------------------------------------- dispatch and life cycle
\* the quit task going straight to exit(0)
FirstPc_QuitSkipsStop(k) ==
  IF k = "status" THEN "lockR"
  ELSE IF k = "logs" THEN "open"
  ELSE IF k = "quit" THEN "exit"
  ELSE "lockP"

FirstPc(k) ==
  IF k = "status" THEN "lockR" ELSE IF k = "logs" THEN "open" ELSE "lockP"

\* the task bodies of "start", "stop" and "quit" and the invoked commands
\* call one supervisor command; the "logs" task calls none
IsSupervisorCall(k) == k \in {"start", "stop", "status", "quit"}

\* the event handler calling the command itself, so waiting for the mutexes
Dispatch_WaitsForState(k) ==
  /\ host_alive
  /\ process_lock = Free /\ running_lock = Free
  /\ \E t \in Tasks :
       /\ kind[t] = "idle"
       /\ \A u \in Tasks : u < t => kind[u] # "idle"
       /\ kind' = [kind EXCEPT ![t] = k]
       /\ calls' = [calls EXCEPT ![t] = IF IsSupervisorCall(k) THEN 1 ELSE 0]
       /\ Goto(t, FirstPc(k))
  /\ UNCHANGED <<store, locks, child, result, os, host_alive, window_visible,
                 pre, kills, launches, last_op, last_flag, any_failure>>

\* lines 165-198 and 224-229: a tray menu click or an invoked command spawns
\* an independent task that runs the command; tasks are numbered in the
\* order of their dispatch
Dispatch(k) ==
  /\ host_alive
  /\ \E t \in Tasks :
       /\ kind[t] = "idle"
       /\ \A u \in Tasks : u < t => kind[u] # "idle"
       /\ kind' = [kind EXCEPT ![t] = k]
       /\ calls' = [calls EXCEPT ![t] = IF IsSupervisorCall(k) THEN 1 ELSE 0]
       /\ Goto(t, FirstPc(k))
  /\ UNCHANGED <<store, locks, child, result, os, host_alive, window_visible,
                 pre, kills, launches, last_op, last_flag, any_failure>>

\* lines 236-237: tokio::time::sleep(2 s) of the auto-start task elapses and
\* the task calls start_python_runner
StartupSleep(t) ==
  /\ Runs(t, "sleep") /\ kind[t] = "startup"
  /\ calls' = [calls EXCEPT ![t] = @ + 1]
  /\ Goto(t, "lockP")
  /\ UNCHANGED <<store, locks, kind, child, result, os, host_alive,
                 window_visible, pre, kills, launches, last_op, last_flag,
                 any_failure>>

\* lines 97-128 and 183-189: the "logs" task runs open_logs_folder, which
\* hands the log directory to the platform's file browser or fails
OpenLogs(t) ==
  /\ Runs(t, "open") /\ kind[t] = "logs"
  /\ \E ok \in BOOLEAN :
       result' = [result EXCEPT ![t] =
                    IF ok THEN OkMsg(MsgLogsOpened) ELSE ErrMsg(MsgLogsFailed)]
  /\ Goto(t, "done")
  /\ UNCHANGED <<store, locks, kind, child, os, host_alive, window_visible,
                 ghost>>

\* line 196: app_handle.exit(0) of the quit task
QuitExit(t) ==
  /\ Runs(t, "exit") /\ kind[t] = "quit"
  /\ host_alive' = FALSE
  /\ Goto(t, "done")
  /\ UNCHANGED <<store, locks, kind, child, result, os, window_visible, ghost>>

\* the close request stopping the worker's bookkeeping along with the window
CloseRequested_ClearsState ==
  /\ host_alive
  /\ window_visible
  /\ window_visible' = FALSE
  /\ python_process' = None
  /\ is_running' = FALSE
  /\ UNCHANGED <<locks, kind, pc, child, result, os, host_alive, ghost>>

\* lines 216-221: CloseRequested hides the window and prevents the close
CloseRequested ==
  /\ host_alive
  /\ window_visible
  /\ window_visible' = FALSE
  /\ UNCHANGED <<store, locks, kind, pc, child, result, os, host_alive, ghost>>

\* lines 152-157 and 160-164: left click and "open" show the main window
ShowWindow ==
  /\ host_alive
  /\ ~window_visible
  /\ window_visible' = TRUE
  /\ UNCHANGED <<store, locks, kind, pc, child, result, os, host_alive, ghost>>

\* the worker is an external program: it may exit on its own at any time
WorkerExit(p) ==
  /\ p \in alive
  /\ alive' = alive \ {p}
  /\ UNCHANGED <<store, locks, kind, pc, child, result, spawned, host_alive,
                 window_visible, ghost>>

Next ==
  \/ \E t \in Tasks : start_python_runner(t)
  \/ \E t \in Tasks : stop_python_runner(t)
  \/ \E t \in Tasks : get_runner_status(t)
  \/ \E k \in {"start", "stop", "status", "quit", "logs"} : Dispatch(k)
  \/ \E t \in Tasks : StartupSleep(t)
  \/ \E t \in Tasks : OpenLogs(t)
  \/ \E t \in Tasks : QuitExit(t)
  \/ CloseRequested
  \/ ShowWindow
  \/ \E p \in alive : WorkerExit(p)

Spec == Init /\ [][Next]_vars

\* Scheduling: the runtime goes on running every task that can take a step
\* (a task blocked on a mutex or in wait() cannot), the timer of the startup
\* delay fires, and a wait() system call returns: the child a task waits for
\* exits.
TaskStep(t) ==
  \/ start_python_runner(t)
  \/ stop_python_runner(t)
  \/ get_runner_status(t)
  \/ StartupSleep(t)
  \/ OpenLogs(t)
  \/ QuitExit(t)

WaitedChildExits ==
  \E p \in alive :
    /\ \E t \in Tasks : pc[t] = "wait" /\ child[t] = p
    /\ WorkerExit(p)

FairSpec ==
  /\ Spec
  /\ \A t \in Tasks : WF_vars(TaskStep(t))
  /\ WF_vars(WaitedChildExits)

TypeOK ==
  /\ python_process \in 0 .. (MaxTasks + 1)
  /\ is_running \in BOOLEAN
  /\ process_lock \in Tasks \cup {Free}
  /\ running_lock \in Tasks \cup {Free}
  /\ alive \subseteq 1 .. spawned
  /\ spawned \in 0 .. (MaxTasks + 1)
\* ------------------------------------------------------------- vocabulary
\* task t has called start or stop and the call has not returned yet
InFlight(t) ==
  /\ IsStart(t) \/ IsStop(t)
  /\ pc[t] \in {"lockP", "lockR", "take", "kill", "wait", "spawn", "storeP",
                "storeF", "unlockR", "unlockP"}

NoOperationInFlight == \A t \in Tasks : ~InFlight(t)

\* task t has made its decision and not yet released either mutex
AtReturn(t) == pc[t] = "unlockR"

\* ------------------------------------------------------------------ claims
\* C1: in every reachable state at most one worker spawned by the supervisor
\* is still alive, also when a kill has returned an error.
AtMostOneWorkerAlive == Cardinality(alive) <= 1

\* C2: a stop whose kill fails returns a failure and leaves the state as it
\* found it: the same handle is stored and the flag has its former value.
StopFailureLeavesStateUnchanged ==
  \A t \in Tasks :
    (IsStop(t) /\ AtReturn(t) /\ kills[t] = <<FALSE>>) =>
      /\ result[t] = ErrMsg(MsgStopFailed)
      /\ python_process = pre[t].handle
      /\ is_running = pre[t].flag

\* C3: a start whose launch fails returns a failure and leaves the handle
\* absent and the flag false, whatever the state before the call.
StartFailureLeavesFlagFalse ==
  \A t \in Tasks :
    (IsStart(t) /\ AtReturn(t) /\ result[t].tag = "Err") =>
      /\ result[t] = ErrMsg(MsgStartFailed)
      /\ python_process = None
      /\ is_running = FALSE

\* C4: whenever no start or stop is in flight, the flag is true exactly when
\* a handle is stored.
FlagIffHandle ==
  NoOperationInFlight => (is_running <=> python_process # None)

\* C7: a stop that finds no handle returns the informational success, kills
\* nothing, leaves the flag as it was, and the flag is false afterwards.
StopWithoutHandleIsNoOp ==
  \A t \in Tasks :
    (IsStop(t) /\ AtReturn(t) /\ pre[t].handle = None) =>
      /\ result[t] = OkMsg(MsgNoRunner)
      /\ kills[t] = <<>>
      /\ is_running = pre[t].flag
      /\ is_running = FALSE
\* C5: at most one handle is stored at any instant: a step stores a new
\* handle only into an empty store, the previous handle having been removed.
HandleStoredOnlyIntoEmptyStore ==
  [][(python_process' # python_process /\ python_process' # None)
       => python_process = None]_vars

\* a start has stored a second worker's handle in place of an earlier one
SecondHandleStored ==
  \E t \in Tasks :
    /\ IsStart(t) /\ pc[t] = "storeF"
    /\ pre[t].handle # None
    /\ python_process \notin {None, pre[t].handle}

\* C6: a start that finds a handle stored kills that handle exactly once,
\* before it launches and before it stores, and then launches whatever the
\* kill returned; it never returns without a launch attempt.
StartAlwaysRestarts ==
  \A t \in Tasks :
    (IsStart(t) /\ pre[t].handle # None) =>
      /\ pc[t] = "kill" =>
           /\ child[t] = pre[t].handle
           /\ Len(kills[t]) = 0 /\ launches[t] = 0
           /\ python_process = None
      /\ pc[t] \in {"wait", "spawn"} =>
           /\ Len(kills[t]) = 1 /\ launches[t] = 0
           /\ python_process = None
      /\ pc[t] \in {"storeP", "storeF", "unlockR", "unlockP", "done"} =>
           /\ Len(kills[t]) = 1 /\ launches[t] = 1

\* a start has returned after a failed kill of the prior worker and a launch
RestartedAfterFailedKill ==
  \E t \in Tasks :
    /\ IsStart(t) /\ pc[t] = "done"
    /\ pre[t].handle # None
    /\ kills[t] = <<FALSE>>
    /\ launches[t] = 1

\* C8: status returns the flag as the last start/stop to finish with the
\* flag left it (false at first), also while another start/stop is in flight.
StatusReadsCommittedFlag ==
  \A t \in Tasks :
    IsStatus(t) =>
      /\ pc[t] = "read" => is_running = last_flag
      /\ pc[t] = "unlockR" => result[t] = OkBool(last_flag)

\* a status has read true while a stop is in flight, blocked on the flag
StatusReadDuringStop ==
  \E t, u \in Tasks :
    /\ IsStatus(t) /\ pc[t] = "unlockR" /\ result[t] = OkBool(TRUE)
    /\ IsStop(u) /\ pc[u] = "lockR"

\* C9: operations are serialized.  A start or stop holds both mutexes from
\* its first read of the handle to its last write of the flag, and no other
\* start, stop or status is inside its own steps at the same time.
TouchesState(t) ==
  \/ /\ IsStart(t) \/ IsStop(t)
     /\ pc[t] \in {"take", "kill", "wait", "spawn", "storeP", "storeF",
                   "unlockR"}
  \/ /\ IsStatus(t)
     /\ pc[t] \in {"read", "unlockR"}

OperationsSerialized ==
  /\ \A t, u \in Tasks : (TouchesState(t) /\ TouchesState(u)) => t = u
  /\ \A t \in Tasks :
       (TouchesState(t) /\ ~IsStatus(t)) =>
         (process_lock = t /\ running_lock = t)
  /\ \A t \in Tasks :
       (TouchesState(t) /\ IsStatus(t)) => running_lock = t

\* a start is about to launch while a status and a stop are waiting for the
\* mutexes it holds
OperationsContend ==
  \E t, u, v \in Tasks :
    /\ IsStart(t) /\ pc[t] = "spawn"
    /\ IsStatus(u) /\ pc[u] = "lockR"
    /\ IsStop(v) /\ pc[v] = "lockP"

\* C10: while no launch and no kill has failed, the last call to return
\* determines the state: handle present and flag true after a start, handle
\* absent and flag false after a stop, each with its success message.
LastCallDeterminesState ==
  ~any_failure =>
    /\ last_op \in {"none", "start_ok", "stop_ok", "stop_none"}
    /\ (process_lock = Free /\ last_op = "start_ok") =>
         (python_process # None /\ is_running = TRUE)
    /\ (process_lock = Free /\ last_op \in {"none", "stop_ok", "stop_none"}) =>
         (python_process = None /\ is_running = FALSE)
    /\ \A t \in Tasks :
         /\ (IsStart(t) /\ pc[t] = "done") => result[t] = OkMsg(MsgStarted)
         /\ (IsStop(t) /\ pc[t] \in {"exit", "done"}) =>
              result[t] = IF pre[t].handle # None THEN OkMsg(MsgStopped)
                          ELSE OkMsg(MsgNoRunner)

\* start, stop, stop without a failure: the second stop found nothing
StoppedTwiceAfterStart ==
  /\ ~any_failure
  /\ process_lock = Free
  /\ last_op = "stop_none"
  /\ \E t \in Tasks : IsStop(t) /\ result[t] = OkMsg(MsgStopped)
\* C11: a quit task calls stop exactly once and reaches exit(0) only after
\* that stop has returned, whatever it returned; the host exits no other way
\* than through such a task.
Returned(t) == result[t].tag \in {"Ok", "Err"}

QuitStopsOnceBeforeExit ==
  /\ \A t \in Tasks :
       kind[t] = "quit" =>
         /\ calls[t] = 1
         /\ Len(kills[t]) <= 1
         /\ pc[t] \in {"exit", "done"} =>
              /\ Returned(t)
              /\ process_lock # t /\ running_lock # t
         /\ Returned(t) => pc[t] \in {"unlockR", "unlockP", "exit", "done"}
  /\ ~host_alive =>
       \E t \in Tasks : kind[t] = "quit" /\ pc[t] = "done" /\ Returned(t)

\* the host has exited after a quit whose stop failed
ExitedAfterFailedStop ==
  /\ ~host_alive
  /\ \E t \in Tasks :
       kind[t] = "quit" /\ pc[t] = "done" /\ result[t] = ErrMsg(MsgStopFailed)

\* C12: a close request, and likewise the open, left-click and logs events,
\* leave the handle and the flag as they are, kill and spawn nothing and do
\* not end the host.
WindowOrLogsEvent ==
  \/ window_visible' # window_visible
  \/ \E t \in Tasks : kind'[t] = "logs" /\ (pc'[t] # pc[t] \/ kind[t] # "logs")

WindowEventsLeaveSupervisorAlone ==
  [][WindowOrLogsEvent =>
       /\ python_process' = python_process
       /\ is_running' = is_running
       /\ alive' = alive /\ spawned' = spawned
       /\ kills' = kills /\ launches' = launches
       /\ host_alive' = host_alive /\ host_alive]_vars

\* the window is hidden while the worker is recorded as running and is alive
HiddenWhileRunning ==
  /\ ~window_visible
  /\ host_alive
  /\ python_process # None /\ python_process \in alive
  /\ is_running

\* C13: start, stop and status always return a success or failure value, and
\* the host ends only through the exit(0) of a quit task, never through a
\* failed launch or a failed kill.
FailuresNeverEndHost ==
  /\ \A t \in Tasks :
       (pc[t] = "done" /\ kind[t] # "quit") => Returned(t)
  /\ \A t \in Tasks :
       (Returned(t) /\ kind[t] # "quit" /\ ~host_alive) =>
          \E q \in Tasks : kind[q] = "quit" /\ pc[q] = "done"
  /\ (any_failure /\ ~host_alive) =>
       \E q \in Tasks : kind[q] = "quit" /\ pc[q] = "done" /\ Returned(q)

\* a launch has failed, the start has returned the failure and the host runs
HostSurvivesFailedLaunch ==
  /\ host_alive
  /\ \E t \in Tasks :
       IsStart(t) /\ pc[t] = "done" /\ result[t] = ErrMsg(MsgStartFailed)
\* C14 as stated: in every host run the startup hook calls start exactly
\* once, so a host that has exited has seen that one call.
StartupCallsStartExactlyOnce ==
  ~host_alive => calls[StartupTask] = 1

\* C14 as amended: the startup hook calls start at most once per host run,
\* and only once its delay has elapsed: the call is made exactly when the
\* delay ends with the host still running.  While it sleeps it holds no
\* mutex, so other tasks are served; its one call makes one launch attempt
\* and a failure is final for it and leaves the host running unless a quit
\* task has ended it.
StartupCallsStartAtMostOnce ==
  /\ calls[StartupTask] <= 1
  /\ (pc[StartupTask] = "sleep") <=> (calls[StartupTask] = 0)
  /\ pc[StartupTask] = "sleep" =>
       /\ process_lock # StartupTask /\ running_lock # StartupTask
       /\ launches[StartupTask] = 0 /\ result[StartupTask] = NoResult
  /\ launches[StartupTask] <= 1
  /\ pc[StartupTask] = "done" =>
       /\ launches[StartupTask] = 1
       /\ Returned(StartupTask)
  /\ (result[StartupTask].tag = "Err" /\ ~host_alive) =>
       \E q \in Tasks : kind[q] = "quit" /\ pc[q] = "done"

\* a start from the tray menu has returned while the startup task sleeps
ServedDuringStartupDelay ==
  /\ pc[StartupTask] = "sleep"
  /\ host_alive
  /\ \E t \in Tasks :
       kind[t] = "start" /\ pc[t] = "done" /\ result[t] = OkMsg(MsgStarted)

\* C15: a status call changes neither the handle nor the flag, kills, waits
\* for and spawns nothing, and returns a success carrying a boolean.
StatusNeverMutates ==
  [][\A t \in Tasks :
       (IsStatus(t) /\ pc'[t] # pc[t]) =>
         /\ python_process' = python_process
         /\ is_running' = is_running
         /\ alive' = alive /\ spawned' = spawned
         /\ kills' = kills /\ launches' = launches
         /\ child' = child
         /\ result'[t].tag # "Err"
         /\ pc'[t] \in {"unlockR", "done"} => result'[t] = OkBool(is_running)
    ]_vars

\* a status call has returned true with the worker stored and flagged
StatusReturnedTrue ==
  \E t \in Tasks :
    /\ IsStatus(t) /\ pc[t] = "done" /\ result[t] = OkBool(TRUE)
    /\ python_process # None /\ is_running

\* C16: no automatic retry.  A start call makes one launch attempt, no more,
\* and has made it when it returns; nothing but a start call launches, so
\* the workers spawned never outnumber the start calls that launched.
NoAutomaticRetry ==
  /\ \A t \in Tasks :
       /\ calls[t] <= 1
       /\ launches[t] <= calls[t]
       /\ (IsStart(t) /\ pc[t] = "done") => launches[t] = 1
       /\ ~IsStart(t) => launches[t] = 0
  /\ spawned <= Cardinality({t \in Tasks : launches[t] > 0})

\* the auto-start has failed for good and a start from the menu has launched
ManualStartAfterFailedAutoStart ==
  /\ pc[StartupTask] = "done"
  /\ result[StartupTask] = ErrMsg(MsgStartFailed)
  /\ launches[StartupTask] = 1
  /\ \E t \in Tasks :
       kind[t] = "start" /\ pc[t] = "done" /\ result[t] = OkMsg(MsgStarted)
\* C17: the event handler never waits on the supervisor state.  While the
\* host runs (and a task can still be created) a start, stop or quit click is
\* accepted whoever holds the mutexes, and the task it creates holds neither
\* mutex when the handler returns.
DispatchNeverWaits ==
  /\ (host_alive /\ \E t \in Tasks : kind[t] = "idle") =>
       \A k \in {"start", "stop", "quit"} : ENABLED Dispatch(k)
  /\ \A t \in Tasks :
       pc[t] = "lockP" => (process_lock # t /\ running_lock # t)

\* a menu action waits as a task for mutexes another operation holds, and
\* the handler can take the next click
DispatchedWhileStateHeld ==
  \E t, u \in Tasks :
    /\ host_alive
    /\ process_lock = u /\ running_lock = u
    /\ kind[t] \in {"start", "stop", "quit"} /\ pc[t] = "lockP"
    /\ \E v \in Tasks : kind[v] = "idle"
\* C18: once the host has exited through a quit whose kill succeeded, no
\* worker spawned by the supervisor is alive, however the quit task
\* interleaved with start tasks.
NoWorkerSurvivesQuit ==
  (/\ ~host_alive
   /\ \E q \in Tasks :
        kind[q] = "quit" /\ pc[q] = "done" /\ kills[q] = <<TRUE>>)
    => alive = {}
\* C19: no deadlock.  Under fair scheduling and returning system calls every
\* start, stop and status call that has been dispatched returns (unless a
\* quit ends the host first): whatever calls are pending, a state follows in
\* which none is.  A task that has returned, or has not yet called, holds no
\* mutex, on the failure paths too.
Pending(t) ==
  pc[t] \in {"lockP", "lockR", "take", "kill", "wait", "spawn", "storeP",
             "storeF", "read", "unlockR", "unlockP"}

EveryCallCompletes ==
  /\ [](\A t \in Tasks :
          pc[t] \in {"idle", "sleep", "open", "exit", "done"} =>
            (process_lock # t /\ running_lock # t))
  /\ []<>(~host_alive \/ \A t \in Tasks : ~Pending(t))

\* a start, a stop and a status have all returned, one of them with a
\* failure, and both mutexes are free
AllCallsReturnedAfterFailure ==
  /\ host_alive
  /\ \A t \in Tasks : pc[t] = "done"
  /\ \E t \in Tasks : IsStop(t) /\ result[t] = ErrMsg(MsgStopFailed)
  /\ \E t \in Tasks : IsStatus(t)
  /\ process_lock = Free /\ running_lock = Free
\* C20: whenever no start or stop is in flight a stored handle implies a
\* true flag, after failed launches and failed kills too, and a status call
\* holding the flag never finds the flag false with a handle stored.
HandleImpliesFlag ==
  /\ NoOperationInFlight => (python_process # None => is_running)
  /\ \A t \in Tasks :
       (IsStatus(t) /\ pc[t] \in {"read", "unlockR"}) =>
         /\ python_process # None => is_running
         /\ (pc[t] = "unlockR" /\ result[t] = OkBool(FALSE)) =>
              python_process = None

\* a handle is stored and flagged, nothing is in flight, and a kill or a
\* launch has failed on the way
HandleStoredAfterFailure ==
  /\ any_failure
  /\ NoOperationInFlight
  /\ python_process # None /\ is_running
====
